---------------------------- MODULE Spec2Model ----------------------------
(***************************************************************************)
(* A model of the renter's file registry (modules/renter/files.go) and of  *)
(* the host database's interaction counters                                *)
(* (modules/renter/hostdb/hostentry.go) of Sia.                            *)
(*                                                                         *)
(* hostentry.go computes the decay of the historic counters in float64.    *)
(* The model computes the same expressions in exact non-negative rational  *)
(* arithmetic (numerator and denominator are arbitrary-precision naturals, *)
(* because TLC's integers are 32 bits wide) and truncates with uint64(.)   *)
(* where the code does.                                                    *)
(***************************************************************************)
EXTENDS Integers, Sequences, FiniteSets, TLC

---------------------------------------------------------------------------
(* Arbitrary-precision naturals: little-endian sequences of limbs in       *)
(* 0..Base-1 without leading zero limbs; <<>> is zero.                     *)

Base == 100 * 100

RECURSIVE BigFromInt(_)
BigFromInt(n) ==
    IF n = 0 THEN <<>> ELSE <<n % Base>> \o BigFromInt(n \div Base)

RECURSIVE BigToInt(_)
BigToInt(a) ==
    IF a = <<>> THEN 0 ELSE Head(a) + Base * BigToInt(Tail(a))

RECURSIVE BigAddC(_, _, _)
BigAddC(a, b, c) ==
    IF a = <<>> /\ b = <<>>
    THEN (IF c = 0 THEN <<>> ELSE <<c>>)
    ELSE LET x == IF a = <<>> THEN 0 ELSE Head(a)
             y == IF b = <<>> THEN 0 ELSE Head(b)
             s == x + y + c
         IN  <<s % Base>> \o BigAddC(IF a = <<>> THEN <<>> ELSE Tail(a),
                                     IF b = <<>> THEN <<>> ELSE Tail(b),
                                     s \div Base)

BigAdd(a, b) == BigAddC(a, b, 0)

RECURSIVE BigMulC(_, _, _)
BigMulC(a, m, c) ==
    IF a = <<>>
    THEN BigFromInt(c)
    ELSE LET s == Head(a) * m + c
         IN  <<s % Base>> \o BigMulC(Tail(a), m, s \div Base)

\* a * m for a limb m in 0..Base-1
BigMulSmall(a, m) == IF m = 0 THEN <<>> ELSE BigMulC(a, m, 0)

BigShift(a) == IF a = <<>> THEN <<>> ELSE <<0>> \o a

RECURSIVE BigMul(_, _)
BigMul(a, b) ==
    IF b = <<>>
    THEN <<>>
    ELSE BigAdd(BigMulSmall(a, Head(b)), BigShift(BigMul(a, Tail(b))))

RECURSIVE BigCmpFrom(_, _, _)
BigCmpFrom(a, b, i) ==
    IF i = 0 THEN 0
    ELSE IF a[i] < b[i] THEN -1
    ELSE IF a[i] > b[i] THEN 1
    ELSE BigCmpFrom(a, b, i - 1)

\* -1, 0 or 1 as a < b, a = b or a > b
BigCmp(a, b) ==
    IF Len(a) < Len(b) THEN -1
    ELSE IF Len(a) > Len(b) THEN 1
    ELSE BigCmpFrom(a, b, Len(a))

\* the smallest p in {p0, 2 p0, 4 p0, ...} with d * p > n  (d > 0)
RECURSIVE BigQuotBound(_, _, _)
BigQuotBound(n, d, p) ==
    IF BigCmp(BigMul(d, BigFromInt(p)), n) > 0
    THEN p
    ELSE BigQuotBound(n, d, 2 * p)

\* the largest q' in q..q+2s-1 with d * q' <= n, given d * q <= n
RECURSIVE BigQuotSearch(_, _, _, _)
BigQuotSearch(n, d, q, s) ==
    IF s = 0 THEN q
    ELSE IF BigCmp(BigMul(d, BigFromInt(q + s)), n) <= 0
    THEN BigQuotSearch(n, d, q + s, s \div 2)
    ELSE BigQuotSearch(n, d, q, s \div 2)

\* floor(n / d) as an integer, for d > 0 and a quotient below 2^30
BigQuot(n, d) == BigQuotSearch(n, d, 0, BigQuotBound(n, d, 1) \div 2)

---------------------------------------------------------------------------
(* Non-negative rationals [n, d], d > 0: the model's float64.              *)

RatInt(i) == [n |-> BigFromInt(i), d |-> <<1>>]

RatFrac(p, q) == [n |-> BigFromInt(p), d |-> BigFromInt(q)]

RatAdd(a, b) ==
    IF a.d = b.d
    THEN [n |-> BigAdd(a.n, b.n), d |-> a.d]
    ELSE [n |-> BigAdd(BigMul(a.n, b.d), BigMul(b.n, a.d)),
          d |-> BigMul(a.d, b.d)]

RatMul(a, b) == [n |-> BigMul(a.n, b.n), d |-> BigMul(a.d, b.d)]

\* a / b for b > 0
RatDiv(a, b) == [n |-> BigMul(a.n, b.d), d |-> BigMul(a.d, b.n)]

RatCmp(a, b) ==
    IF a.d = b.d
    THEN BigCmp(a.n, b.n)
    ELSE BigCmp(BigMul(a.n, b.d), BigMul(b.n, a.d))

RatGt(a, b) == RatCmp(a, b) > 0

RatLeq(a, b) == RatCmp(a, b) <= 0

RatEq(a, b) == RatCmp(a, b) = 0

\* uint64(x) of a non-negative float64: truncation toward zero
RatTrunc(a) == BigQuot(a.n, a.d)

RECURSIVE RatPowInt(_, _)
RatPowInt(a, e) == IF e = 0 THEN RatInt(1) ELSE RatMul(a, RatPowInt(a, e - 1))

---------------------------------------------------------------------------
(* hostdb: the interaction counters of a host (hostentry.go).              *)

\* The three constants are declared in the hostdb package outside
\* hostentry.go; their values are the ones the specification's scenario A
\* configures: decay 0.995, decay limit 500, weight limit 0.01.
historicInteractionDecayLimit == 500

historicInteractionDecay == RatFrac(995, 1000)

recentInteractionWeightLimit == RatFrac(1, 100)

\* types.BlockHeight is a uint64.  TLC's integers are 32 bits wide, so the
\* model's block heights wrap at 2^30 instead of 2^64; the model's heights
\* are far below either, and a wrapped difference is, for both widths,
\* far above the exponent at which math.Pow underflows.
BlockHeightMod == 2 ^ 30

BlockHeightSub(a, b) == (a - b + BlockHeightMod) % BlockHeightMod

\* 0.995^e is below the smallest float64 (2^-1074) for every e >= 148655:
\* math.Pow returns 0 there.
PowUnderflowExponent == 150000

\* math.Pow(x, float64(e)) for 0 < x < 1
Pow(x, e) == IF e >= PowUnderflowExponent THEN RatInt(0) ELSE RatPowInt(x, e)

\* SingleBlockDecay without the check of the decay limit
SingleBlockDecayAlways(host) ==
    [hsi |-> RatMul(RatInt(host.HistoricSuccessfulInteractions),
                    historicInteractionDecay),
     hfi |-> RatMul(RatInt(host.HistoricFailedInteractions),
                    historicInteractionDecay)]

\* SingleBlockDecay that divides by the decay factor
SingleBlockGrowth(host) ==
    LET hsi == RatInt(host.HistoricSuccessfulInteractions)
        hfi == RatInt(host.HistoricFailedInteractions)
    IN  IF RatGt(RatAdd(hsi, hfi), RatInt(historicInteractionDecayLimit))
        THEN [hsi |-> RatDiv(hsi, historicInteractionDecay),
              hfi |-> RatDiv(hfi, historicInteractionDecay)]
        ELSE [hsi |-> hsi, hfi |-> hfi]

\* hostentry.go:24-34: the historic counters as floats, decayed by one
\* block when there are more than historicInteractionDecayLimit of them.
SingleBlockDecay(host) ==
    LET hsi == RatInt(host.HistoricSuccessfulInteractions)
        hfi == RatInt(host.HistoricFailedInteractions)
    IN  IF RatGt(RatAdd(hsi, hfi), RatInt(historicInteractionDecayLimit))
        THEN [hsi |-> RatMul(hsi, historicInteractionDecay),
              hfi |-> RatMul(hfi, historicInteractionDecay)]
        ELSE [hsi |-> hsi, hfi |-> hfi]

\* ClampRecent with the failed count left unscaled
ClampRecentSuccessfulOnly(host, h) ==
    LET rsi == RatInt(host.RecentSuccessfulInteractions)
        rfi == RatInt(host.RecentFailedInteractions)
        limit == RatInt(historicInteractionDecayLimit)
        base == IF RatGt(RatAdd(h.hsi, h.hfi), limit)
                THEN RatAdd(h.hsi, h.hfi)
                ELSE limit
        cap == RatMul(recentInteractionWeightLimit, base)
    IN  IF RatGt(RatAdd(rsi, rfi), cap)
        THEN LET adjustment == RatDiv(cap, RatAdd(rsi, rfi))
             IN  [rsi |-> RatMul(rsi, adjustment), rfi |-> rfi]
        ELSE [rsi |-> rsi, rfi |-> rfi]

\* hostentry.go:41-55: the recent counters as floats, scaled down when they
\* exceed recentInteractionWeightLimit of the historic ones (of the decay
\* limit, when the history is thin).  h is the result of SingleBlockDecay.
ClampRecent(host, h) ==
    LET rsi == RatInt(host.RecentSuccessfulInteractions)
        rfi == RatInt(host.RecentFailedInteractions)
        limit == RatInt(historicInteractionDecayLimit)
        base == IF RatGt(RatAdd(h.hsi, h.hfi), limit)
                THEN RatAdd(h.hsi, h.hfi)
                ELSE limit
        cap == RatMul(recentInteractionWeightLimit, base)
    IN  IF RatGt(RatAdd(rsi, rfi), cap)
        THEN LET adjustment == RatDiv(cap, RatAdd(rsi, rfi))
             IN  [rsi |-> RatMul(rsi, adjustment),
                  rfi |-> RatMul(rfi, adjustment)]
        ELSE [rsi |-> rsi, rfi |-> rfi]

\* hostentry.go:56-57
MergeRecent(h, r) ==
    [hsi |-> RatAdd(h.hsi, r.rsi), hfi |-> RatAdd(h.hfi, r.rfi)]

\* RemainingDecay that decays every passed block again, the first included
RemainingDecayEveryBlock(h, passedTime) ==
    IF RatGt(RatAdd(h.hsi, h.hfi), RatInt(historicInteractionDecayLimit))
    THEN LET decay == Pow(historicInteractionDecay, passedTime)
         IN  [hsi |-> RatMul(h.hsi, decay), hfi |-> RatMul(h.hfi, decay)]
    ELSE h

\* hostentry.go:59-64: the decay of the rest of the blocks
RemainingDecay(h, passedTime) ==
    IF passedTime > 1
       /\ RatGt(RatAdd(h.hsi, h.hfi), RatInt(historicInteractionDecayLimit))
    THEN LET decay == Pow(historicInteractionDecay, passedTime - 1)
         IN  [hsi |-> RatMul(h.hsi, decay), hfi |-> RatMul(h.hfi, decay)]
    ELSE h

\* NoTimePassed without the early return
NoTimePassedIgnored(passedTime) == FALSE

\* hostentry.go:18-22: nothing to do when no block passed
NoTimePassed(passedTime) == passedTime = 0

\* hostentry.go:17-74
updateHostHistoricInteractions(host, bh) ==
    LET passedTime == BlockHeightSub(bh, host.LastHistoricUpdate)
    IN  IF NoTimePassed(passedTime)
        THEN host
        ELSE LET h1 == SingleBlockDecay(host)
                 r  == ClampRecent(host, h1)
                 h2 == MergeRecent(h1, r)
                 h3 == RemainingDecay(h2, passedTime)
             IN  [host EXCEPT
                    !.HistoricSuccessfulInteractions = RatTrunc(h3.hsi),
                    !.HistoricFailedInteractions     = RatTrunc(h3.hfi),
                    !.RecentSuccessfulInteractions   = 0,
                    !.RecentFailedInteractions       = 0,
                    !.LastHistoricUpdate             = bh]

HostDBEntry(key, hs, hf, rs, rf, lhu) ==
    [PublicKey                      |-> key,
     HistoricSuccessfulInteractions |-> hs,
     HistoricFailedInteractions     |-> hf,
     RecentSuccessfulInteractions   |-> rs,
     RecentFailedInteractions       |-> rf,
     LastHistoricUpdate             |-> lhu]

---------------------------------------------------------------------------
(* The state: the host database, the renter, and the callers in flight.    *)

VARIABLES
    hostTree,      \* hdb.hostTree: public key -> HostDBEntry
    blockHeight,   \* hdb.blockHeight
    online,        \* hdb.online
    hdbCall,       \* the last call on the host database and what it did
    calls,         \* number of Increment* calls made so far
    mu,            \* hdb.mu: the set of processes holding it
    pc,            \* concurrent callers: where each one is in its call
    callOp,        \* concurrent callers: the method each one calls
    callKey,       \* concurrent callers: the key each one passes
    host,          \* concurrent callers: the local variable host
    hostTree0      \* concurrent callers: hostTree when the calls began

VARIABLES
    files,         \* r.files: nickname -> file
    backing,       \* the arrays behind the Pieces slices: address -> pieces
    rBlockHeight,  \* r.blockHeight
    fileInfos,     \* what the last FileList returned (NoList before it)
    renterCall     \* the last call on the renter and what it returned

VARIABLES
    rmu,           \* r.mu: the processes holding it, as writer and as readers
    callNames,     \* concurrent callers: currentName and newName of Rename
    callFile,      \* concurrent callers: the receiver f of a query, the
                   \* local variable entry of Rename
    ret            \* concurrent callers: the error Rename returned and the
                   \* number of r.save() calls it made

hdbVars == <<hostTree, blockHeight, online, hdbCall, calls>>

renterCallerVars == <<rmu, callNames, callFile, ret>>

concVars == <<mu, pc, callOp, callKey, host, hostTree0, renterCallerVars>>

renterVars == <<files, backing, rBlockHeight, fileInfos, renterCall>>

vars == <<hdbVars, concVars, renterVars>>

---------------------------------------------------------------------------
(* Bounds of the model.                                                    *)

\* block heights range over 0..MaxHeight
MaxHeight == 3

\* the recent counters are incremented up to MaxRecent
MaxRecent == 12

\* Increment* calls per behaviour of the sequential host database
MaxCalls == 2

Heights == 0..MaxHeight

\* "known" has a record in the host tree, "unknown" has none
Keys == {"known", "unknown"}

KnownKeys == {"known"}

\* counters of the records the behaviours start from: thin and rich
\* histories around historicInteractionDecayLimit, recent counts below and
\* above recentInteractionWeightLimit of it
HistoricSuccessfulSeeds == {0, 100, 600}

HistoricFailedSeeds == {0, 450}

RecentSuccessfulSeeds == {0, 10}

RecentFailedSeeds == {0, 3}

SeedEntries(key) ==
    { HostDBEntry(key, hs, hf, rs, rf, lhu) :
        hs \in HistoricSuccessfulSeeds, hf \in HistoricFailedSeeds,
        rs \in RecentSuccessfulSeeds, rf \in RecentFailedSeeds,
        lhu \in Heights }

\* concurrent callers of the host database
NumProcs == 2

Procs == 1..NumProcs

Ops == {"IncrementSuccessfulInteractions", "IncrementFailedInteractions"}

NoCall == [op |-> "none", key |-> "none", modified |-> FALSE]

---------------------------------------------------------------------------
(* hostdb: the host tree and the two Increment methods.                    *)

\* the zero value of modules.HostDBEntry
ZeroEntry == HostDBEntry("", 0, 0, 0, 0, 0)

\* hdb.hostTree.Select(key): the entry and whether there is one
Select(tree, key) ==
    IF key \in DOMAIN tree
    THEN [host |-> tree[key], haveHost |-> TRUE]
    ELSE [host |-> ZeroEntry, haveHost |-> FALSE]

\* hdb.hostTree.Modify(entry): replaces the entry stored under its key
Modify(tree, entry) ==
    IF entry.PublicKey \in DOMAIN tree
    THEN [tree EXCEPT ![entry.PublicKey] = entry]
    ELSE tree

\* SuccessfulReturnsEarly without the haveHost check
SuccessfulNeverReturnsEarly(haveHost) == FALSE

\* FailedReturnsEarly without the online check
FailedReturnsEarlyIgnoringOnline(haveHost, on) == ~haveHost

\* hostentry.go:84: IncrementSuccessfulInteractions returns early
SuccessfulReturnsEarly(haveHost) == ~haveHost

\* hostentry.go:104: IncrementFailedInteractions returns early
FailedReturnsEarly(haveHost, on) == ~haveHost \/ ~on

\* SuccessfulEntry that counts the interaction before the decay update
SuccessfulEntryIncrementFirst(h, bh) ==
    updateHostHistoricInteractions(
        [h EXCEPT !.RecentSuccessfulInteractions = @ + 1], bh)

\* hostentry.go:88-92: the entry IncrementSuccessfulInteractions stores
SuccessfulEntry(h, bh) ==
    LET u == updateHostHistoricInteractions(h, bh)
    IN  [u EXCEPT !.RecentSuccessfulInteractions = @ + 1]

\* hostentry.go:109-113: the entry IncrementFailedInteractions stores
FailedEntry(h, bh) ==
    LET u == updateHostHistoricInteractions(h, bh)
    IN  [u EXCEPT !.RecentFailedInteractions = @ + 1]

ReturnsEarly(op, haveHost, on) ==
    IF op = "IncrementSuccessfulInteractions"
    THEN SuccessfulReturnsEarly(haveHost)
    ELSE FailedReturnsEarly(haveHost, on)

NewEntry(op, h, bh) ==
    IF op = "IncrementSuccessfulInteractions"
    THEN SuccessfulEntry(h, bh)
    ELSE FailedEntry(h, bh)

\* the counters stay below MaxRecent (in the code they are uint64)
BelowCap(e) ==
    /\ e.RecentSuccessfulInteractions <= MaxRecent
    /\ e.RecentFailedInteractions <= MaxRecent

\* A whole call of op(key), under hdb.mu from Lock to the deferred Unlock.
Increment(op, key) ==
    LET sel == Select(hostTree, key)
    IN  /\ calls < MaxCalls
        /\ calls' = calls + 1
        /\ IF ReturnsEarly(op, sel.haveHost, online)
           THEN /\ hostTree' = hostTree
                /\ hdbCall' = [op |-> op, key |-> key, modified |-> FALSE]
           ELSE LET e == NewEntry(op, sel.host, blockHeight)
                IN  /\ BelowCap(e)
                    /\ hostTree' = Modify(hostTree, e)
                    /\ hdbCall' = [op |-> op, key |-> key, modified |-> TRUE]
        /\ UNCHANGED <<blockHeight, online, concVars, renterVars>>

\* hostentry.go:78-94
IncrementSuccessfulInteractions ==
    \E key \in Keys : Increment("IncrementSuccessfulInteractions", key)

\* hostentry.go:98-115
IncrementFailedInteractions ==
    \E key \in Keys : Increment("IncrementFailedInteractions", key)

\* The consensus set applies a block: hdb.blockHeight goes up by one.
BlockApplied ==
    /\ blockHeight < MaxHeight
    /\ blockHeight' = blockHeight + 1
    /\ hdbCall' = NoCall
    /\ UNCHANGED <<hostTree, online, calls, concVars, renterVars>>

\* The consensus set reverts a block: hdb.blockHeight goes down by one.
BlockReverted ==
    /\ blockHeight > 0
    /\ blockHeight' = blockHeight - 1
    /\ hdbCall' = NoCall
    /\ UNCHANGED <<hostTree, online, calls, concVars, renterVars>>

\* The node's connectivity changes: hdb.online is set or cleared.
SetOnline ==
    /\ online' = ~online
    /\ hdbCall' = NoCall
    /\ UNCHANGED <<hostTree, blockHeight, calls, concVars, renterVars>>

---------------------------------------------------------------------------
(* hostdb: concurrent callers.  Each process makes one call; the steps of  *)
(* a call are Lock, Select, the update and Modify, and the deferred        *)
(* Unlock.                                                                 *)

\* MutexFree of a mutex that excludes nobody
MutexAlwaysFree(m) == TRUE

\* sync.Mutex: Lock returns when nobody holds the mutex
MutexFree(m) == m = {}

\* hostentry.go:79 and 99: hdb.mu.Lock()
Lock(p) ==
    /\ pc[p] = "lock"
    /\ MutexFree(mu)
    /\ mu' = mu \cup {p}
    /\ pc' = [pc EXCEPT ![p] = "select"]
    /\ UNCHANGED <<hdbVars, callOp, callKey, host, hostTree0, renterVars,
                   renterCallerVars>>

\* hostentry.go:83-86 and 103-107: Select and the early return
SelectHost(p) ==
    LET sel == Select(hostTree, callKey[p])
    IN  /\ pc[p] = "select"
        /\ host' = [host EXCEPT ![p] = sel.host]
        /\ pc' = [pc EXCEPT ![p] =
                    IF ReturnsEarly(callOp[p], sel.haveHost, online)
                    THEN "unlock" ELSE "modify"]
        /\ UNCHANGED <<hdbVars, mu, callOp, callKey, hostTree0, renterVars,
                       renterCallerVars>>

\* hostentry.go:89-93 and 110-114: the update, the increment and Modify
ModifyHost(p) ==
    LET e == NewEntry(callOp[p], host[p], blockHeight)
    IN  /\ pc[p] = "modify"
        /\ host' = [host EXCEPT ![p] = e]
        /\ hostTree' = Modify(hostTree, e)
        /\ pc' = [pc EXCEPT ![p] = "unlock"]
        /\ UNCHANGED <<blockHeight, online, hdbCall, calls, mu, callOp,
                       callKey, hostTree0, renterVars, renterCallerVars>>

\* hostentry.go:80 and 100: the deferred hdb.mu.Unlock()
Unlock(p) ==
    /\ pc[p] = "unlock"
    /\ mu' = mu \ {p}
    /\ pc' = [pc EXCEPT ![p] = "done"]
    /\ UNCHANGED <<hdbVars, callOp, callKey, host, hostTree0, renterVars,
                   renterCallerVars>>

---------------------------------------------------------------------------
(* renter: files and their pieces (files.go).                              *)

\* pieces per file
MaxPieces == 2

\* PiecesRequired ranges over 0..MaxRequired
MaxRequired == 2

\* Contract.WindowStart and r.blockHeight range over 0..MaxWindow
MaxWindow == 2

WindowHeights == 0..MaxWindow

FileNames == {"a", "b", "c"}

\* files.go:37-49: the fields of a filePiece the methods read
filePiece(active, repairing, windowStart) ==
    [Active |-> active, Repairing |-> repairing,
     Contract |-> [WindowStart |-> windowStart]]

\* files.go:12-32: the fields of a file the methods read.  Pieces is a
\* slice: it holds the address of its backing array, not the pieces.
file(name, piecesRequired, address) ==
    [Name |-> name, PiecesRequired |-> piecesRequired, Pieces |-> address]

AllPieces ==
    { filePiece(a, r, w) : a \in BOOLEAN, r \in BOOLEAN, w \in WindowHeights }

PieceSeqs == UNION { [1..n -> AllPieces] : n \in 0..MaxPieces }

\* files.go:56-65: the loop of Available from piece i on, with the count
\* of active pieces so far
RECURSIVE AvailableLoop(_, _, _, _)
AvailableLoop(pieces, i, active, piecesRequired) ==
    IF i > Len(pieces)
    THEN FALSE
    ELSE LET a == IF pieces[i].Active THEN active + 1 ELSE active
         IN  IF a >= piecesRequired
             THEN TRUE
             ELSE AvailableLoop(pieces, i + 1, a, piecesRequired)

\* files.go:52-66
Available(f, mem) == AvailableLoop(mem[f.Pieces], 1, 0, f.PiecesRequired)

\* files.go:69-73
Nickname(f) == f.Name

\* RepairingLoop that looks at the first piece only
RECURSIVE RepairingFirstPieceOnly(_, _)
RepairingFirstPieceOnly(pieces, i) ==
    IF i > Len(pieces) THEN FALSE ELSE pieces[i].Repairing

\* files.go:80-85: the loop of Repairing from piece i on
RECURSIVE RepairingLoop(_, _)
RepairingLoop(pieces, i) ==
    IF i > Len(pieces)
    THEN FALSE
    ELSE IF pieces[i].Repairing
    THEN TRUE
    ELSE RepairingLoop(pieces, i + 1)

\* files.go:76-86
Repairing(f, mem) == RepairingLoop(mem[f.Pieces], 1)

\* WindowPassed without the comparison
WindowNeverPassed(windowStart, bh) == FALSE

\* files.go:96: the contract of the first piece has expired
WindowPassed(windowStart, bh) == windowStart < bh

\* files.go:89-100
TimeRemaining(f, mem, bh) ==
    LET pieces == mem[f.Pieces]
    IN  IF Len(pieces) = 0
        THEN 0
        ELSE IF WindowPassed(pieces[1].Contract.WindowStart, bh)
        THEN 0
        ELSE BlockHeightSub(pieces[1].Contract.WindowStart, bh)

NoRenterCall == [op |-> "none"]

QueryFrame == UNCHANGED <<files, backing, rBlockHeight, fileInfos, hdbVars, concVars>>

AvailableCall ==
    \E name \in DOMAIN files :
        /\ renterCall' = [op |-> "Available", name |-> name,
                          result |-> Available(files[name], backing)]
        /\ QueryFrame

NicknameCall ==
    \E name \in DOMAIN files :
        /\ renterCall' = [op |-> "Nickname", name |-> name,
                          result |-> Nickname(files[name])]
        /\ QueryFrame

RepairingCall ==
    \E name \in DOMAIN files :
        /\ renterCall' = [op |-> "Repairing", name |-> name,
                          result |-> Repairing(files[name], backing)]
        /\ QueryFrame

TimeRemainingCall ==
    \E name \in DOMAIN files :
        /\ renterCall' = [op |-> "TimeRemaining", name |-> name,
                          result |-> TimeRemaining(files[name], backing,
                                                   rBlockHeight)]
        /\ QueryFrame

\* files.go:107-113: one struct copy per file (*nf = r.files[i]); the copy
\* of the Pieces slice holds the same address as the original
FileListCopy(f) == f

\* files.go:103-115
FileList ==
    /\ fileInfos' = [name \in DOMAIN files |-> FileListCopy(files[name])]
    /\ renterCall' = [op |-> "FileList"]
    /\ UNCHANGED <<files, backing, rBlockHeight, hdbVars, concVars>>

\* files.go:125-128: there is no file of the current name
RenameNotFound(fs, currentName, newName) == currentName \notin DOMAIN fs

\* RenameExists that lets a file be renamed to its own name
RenameExistsOther(fs, currentName, newName) ==
    newName \in DOMAIN fs /\ newName # currentName

\* files.go:129-132: there is a file of the new name already
RenameExists(fs, currentName, newName) == newName \in DOMAIN fs

\* Renamed that forgets to set the Name field of the moved file
RenamedKeepingName(fs, currentName, newName) ==
    [name \in (DOMAIN fs \ {currentName}) \cup {newName} |->
        IF name = newName
        THEN fs[currentName]
        ELSE fs[name]]

\* files.go:134-137: the registry after the renaming
Renamed(fs, currentName, newName) ==
    [name \in (DOMAIN fs \ {currentName}) \cup {newName} |->
        IF name = newName
        THEN [fs[currentName] EXCEPT !.Name = newName]
        ELSE fs[name]]

\* files.go:120-141; saved tells whether r.save() was called
Rename ==
    \E currentName \in FileNames, newName \in FileNames :
        /\ IF RenameNotFound(files, currentName, newName)
           THEN /\ files' = files
                /\ renterCall' = [op |-> "Rename", currentName |-> currentName,
                                  newName |-> newName, saved |-> FALSE,
                                  err |-> "no file found by that name"]
           ELSE IF RenameExists(files, currentName, newName)
           THEN /\ files' = files
                /\ renterCall' = [op |-> "Rename", currentName |-> currentName,
                                  newName |-> newName, saved |-> FALSE,
                                  err |-> "file of new name already exists"]
           ELSE /\ files' = Renamed(files, currentName, newName)
                /\ renterCall' = [op |-> "Rename", currentName |-> currentName,
                                  newName |-> newName, saved |-> TRUE,
                                  err |-> "nil"]
        /\ UNCHANGED <<backing, rBlockHeight, fileInfos, hdbVars, concVars>>

\* The renter marks a piece of a file active or inactive (under r.mu.Lock).
SetPieceActive ==
    \E name \in DOMAIN files :
        \E i \in 1..Len(backing[files[name].Pieces]), b \in BOOLEAN :
            /\ backing' = [backing EXCEPT ![files[name].Pieces][i].Active = b]
            /\ renterCall' = [op |-> "SetPieceActive"]
            /\ UNCHANGED <<files, rBlockHeight, fileInfos, hdbVars, concVars>>

\* The renter marks a piece of a file as being repaired or not.
SetPieceRepairing ==
    \E name \in DOMAIN files :
        \E i \in 1..Len(backing[files[name].Pieces]), b \in BOOLEAN :
            /\ backing' = [backing EXCEPT ![files[name].Pieces][i].Repairing = b]
            /\ renterCall' = [op |-> "SetPieceRepairing"]
            /\ UNCHANGED <<files, rBlockHeight, fileInfos, hdbVars, concVars>>

---------------------------------------------------------------------------
(* renter: concurrent callers.  Each process makes one call; the steps of  *)
(* a call are the Lock or RLock, the body, and the deferred Unlock or      *)
(* RUnlock.                                                                *)

\* r.mu with nobody holding it
NoHolders == [writer |-> {}, readers |-> {}]

NoReturn == [err |-> "none", saves |-> 0]

\* WriterMayLock of a lock that excludes nobody
WriterAlwaysMayLock(m) == TRUE

\* r.mu.Lock() returns when there is neither a writer nor a reader
WriterMayLock(m) == m.writer = {} /\ m.readers = {}

\* r.mu.RLock() returns when there is no writer
ReaderMayLock(m) == m.writer = {}

\* ReturnFromRename that runs the deferred Unlock after a nil return only
ReturnFromRenameUnlockingOnSuccess(err) ==
    IF err = "nil" THEN "wunlock" ELSE "done"

\* files.go:122: whatever Rename returns, the deferred r.mu.Unlock runs next
ReturnFromRename(err) == "wunlock"

\* the callers' variables of the host database and the host database
hdbFrame == UNCHANGED <<hdbVars, mu, callOp, callKey, host, hostTree0>>

\* files.go:121: r.mu.Lock()
WLock(p) ==
    /\ pc[p] = "wlock"
    /\ WriterMayLock(rmu)
    /\ rmu' = [rmu EXCEPT !.writer = @ \cup {p}]
    /\ pc' = [pc EXCEPT ![p] = "check"]
    /\ UNCHANGED <<renterVars, callNames, callFile, ret>>
    /\ hdbFrame

\* files.go:125-132: the two lookups and the returns of the errors
RenameCheck(p) ==
    LET currentName == callNames[p][1]
        newName == callNames[p][2]
        err == IF RenameNotFound(files, currentName, newName)
               THEN "no file found by that name"
               ELSE IF RenameExists(files, currentName, newName)
               THEN "file of new name already exists"
               ELSE "none"
    IN  /\ pc[p] = "check"
        /\ IF err = "none"
           THEN /\ callFile' = [callFile EXCEPT ![p] = files[currentName]]
                /\ pc' = [pc EXCEPT ![p] = "rename"]
                /\ UNCHANGED <<ret, renterCall>>
           ELSE /\ ret' = [ret EXCEPT ![p] = [err |-> err, saves |-> 0]]
                /\ pc' = [pc EXCEPT ![p] = ReturnFromRename(err)]
                /\ renterCall' = [op |-> "Rename", currentName |-> currentName,
                                  newName |-> newName, saved |-> FALSE,
                                  err |-> err]
                /\ UNCHANGED callFile
        /\ UNCHANGED <<files, backing, rBlockHeight, fileInfos, rmu, callNames>>
        /\ hdbFrame

\* files.go:135-140: delete, entry.Name = newName, the assignment, r.save()
\* and the return of nil
RenameMutate(p) ==
    LET currentName == callNames[p][1]
        newName == callNames[p][2]
        entry == [callFile[p] EXCEPT !.Name = newName]
    IN  /\ pc[p] = "rename"
        /\ files' = [name \in (DOMAIN files \ {currentName}) \cup {newName} |->
                        IF name = newName THEN entry ELSE files[name]]
        /\ callFile' = [callFile EXCEPT ![p] = entry]
        /\ ret' = [ret EXCEPT ![p] = [err |-> "nil", saves |-> 1]]
        /\ pc' = [pc EXCEPT ![p] = ReturnFromRename("nil")]
        /\ renterCall' = [op |-> "Rename", currentName |-> currentName,
                          newName |-> newName, saved |-> TRUE, err |-> "nil"]
        /\ UNCHANGED <<backing, rBlockHeight, fileInfos, rmu, callNames>>
        /\ hdbFrame

\* files.go:122: the deferred r.mu.Unlock(lockID)
WUnlock(p) ==
    /\ pc[p] = "wunlock"
    /\ rmu' = [rmu EXCEPT !.writer = @ \ {p}]
    /\ pc' = [pc EXCEPT ![p] = "done"]
    /\ UNCHANGED <<renterVars, callNames, callFile, ret>>
    /\ hdbFrame

ReadOps == {"Available", "Nickname", "Repairing", "TimeRemaining", "FileList"}

\* files.go:53, 70, 77, 90 and 104: r.mu.RLock()
RLock(p) ==
    /\ pc[p] = "rlock"
    /\ ReaderMayLock(rmu)
    /\ rmu' = [rmu EXCEPT !.readers = @ \cup {p}]
    /\ pc' = [pc EXCEPT ![p] = "read"]
    /\ UNCHANGED <<renterVars, callNames, callFile, ret>>
    /\ hdbFrame

\* files.go:56-65, 72, 80-85, 93-99: what the query on f returns
QueryResult(op, f, mem, bh) ==
    IF op = "Available" THEN [op |-> op, name |-> f.Name,
                              result |-> Available(f, mem)]
    ELSE IF op = "Nickname" THEN [op |-> op, name |-> f.Name,
                                  result |-> Nickname(f)]
    ELSE IF op = "Repairing" THEN [op |-> op, name |-> f.Name,
                                   result |-> Repairing(f, mem)]
    ELSE [op |-> op, name |-> f.Name, result |-> TimeRemaining(f, mem, bh)]

\* the body of a query, of FileList (files.go:107-114) included, read lock held
ReadCall(p) ==
    /\ pc[p] = "read"
    /\ IF callOp[p] = "FileList"
       THEN /\ fileInfos' = [name \in DOMAIN files |-> FileListCopy(files[name])]
            /\ renterCall' = [op |-> "FileList"]
       ELSE /\ renterCall' = QueryResult(callOp[p], callFile[p], backing,
                                         rBlockHeight)
            /\ UNCHANGED fileInfos
    /\ pc' = [pc EXCEPT ![p] = "runlock"]
    /\ UNCHANGED <<files, backing, rBlockHeight, renterCallerVars>>
    /\ hdbFrame

\* files.go:54, 71, 78, 91 and 105: the deferred r.mu.RUnlock(lockID)
RUnlock(p) ==
    /\ pc[p] = "runlock"
    /\ rmu' = [rmu EXCEPT !.readers = @ \ {p}]
    /\ pc' = [pc EXCEPT ![p] = "done"]
    /\ UNCHANGED <<renterVars, callNames, callFile, ret>>
    /\ hdbFrame

---------------------------------------------------------------------------
(* Initial states and specifications.                                      *)

EmptyList == [name \in {} |-> file(name, 0, 0)]

HdbIdle ==
    /\ hostTree = [key \in KnownKeys |-> HostDBEntry(key, 0, 0, 0, 0, 0)]
    /\ blockHeight = 0
    /\ online = TRUE
    /\ hdbCall = NoCall
    /\ calls = 0

RenterCallersIdle ==
    /\ rmu = NoHolders
    /\ callNames = [p \in Procs |-> <<"a", "a">>]
    /\ callFile = [p \in Procs |-> file("a", 1, 1)]
    /\ ret = [p \in Procs |-> NoReturn]

ConcIdle ==
    /\ mu = {}
    /\ pc = [p \in Procs |-> "done"]
    /\ callOp = [p \in Procs |-> "IncrementSuccessfulInteractions"]
    /\ callKey = [p \in Procs |-> "known"]
    /\ host = [p \in Procs |-> ZeroEntry]
    /\ hostTree0 = hostTree
    /\ RenterCallersIdle

RenterIdle ==
    /\ files = [name \in {"a"} |-> file(name, 1, 1)]
    /\ backing = [address \in {1} |-> <<>>]
    /\ rBlockHeight = 0
    /\ fileInfos = EmptyList
    /\ renterCall = NoRenterCall

\* The host database with one caller at a time.  Every record was last
\* updated at a height the database has been at.
Init ==
    /\ hostTree \in [KnownKeys -> UNION { SeedEntries(key) : key \in KnownKeys }]
    /\ blockHeight \in Heights
    /\ \A key \in KnownKeys :
           /\ hostTree[key].PublicKey = key
           /\ hostTree[key].LastHistoricUpdate <= blockHeight
    /\ online \in BOOLEAN
    /\ hdbCall = NoCall
    /\ calls = 0
    /\ ConcIdle
    /\ RenterIdle

Next ==
    \/ IncrementSuccessfulInteractions
    \/ IncrementFailedInteractions
    \/ BlockApplied
    \/ BlockReverted
    \/ SetOnline

Spec == Init /\ [][Next]_vars

\* The seeds of the concurrent behaviours: a thin and a rich history
ConcSeedEntries(key) ==
    { e \in SeedEntries(key) :
        /\ e.HistoricFailedInteractions = 0
        /\ e.HistoricSuccessfulInteractions > 0
        /\ e.RecentFailedInteractions = e.RecentSuccessfulInteractions \div 5 }

\* The host database with concurrent callers, one call each.
InitConc ==
    /\ hostTree \in [KnownKeys -> UNION { ConcSeedEntries(key) : key \in KnownKeys }]
    /\ \A key \in KnownKeys : hostTree[key].PublicKey = key
    /\ blockHeight \in Heights
    /\ online \in BOOLEAN
    /\ hdbCall = NoCall
    /\ calls = 0
    /\ mu = {}
    /\ pc = [p \in Procs |-> "lock"]
    /\ callOp \in [Procs -> Ops]
    /\ callKey \in [Procs -> Keys]
    /\ host = [p \in Procs |-> ZeroEntry]
    /\ hostTree0 = hostTree
    /\ RenterCallersIdle
    /\ RenterIdle

NextConc ==
    \E p \in Procs :
        \/ Lock(p)
        \/ SelectHost(p)
        \/ ModifyHost(p)
        \/ Unlock(p)

SpecConc == InitConc /\ [][NextConc]_vars

\* The queries on one file, for every file within the bounds.
InitFiles ==
    /\ \E piecesRequired \in 0..MaxRequired :
           files = [name \in {"a"} |-> file(name, piecesRequired, 1)]
    /\ backing \in [{1} -> PieceSeqs]
    /\ rBlockHeight \in WindowHeights
    /\ fileInfos = EmptyList
    /\ renterCall = NoRenterCall
    /\ HdbIdle
    /\ ConcIdle

NextFiles ==
    \/ AvailableCall
    \/ NicknameCall
    \/ RepairingCall
    \/ TimeRemainingCall

SpecFiles == InitFiles /\ [][NextFiles]_vars

\* The registry of two files: renaming, listing, and changes of pieces.
InitRegistry ==
    /\ files = [name \in {"a", "b"} |->
                   file(name, 1, IF name = "a" THEN 1 ELSE 2)]
    /\ backing = [address \in {1, 2} |->
                   IF address = 1
                   THEN <<filePiece(TRUE, FALSE, 1), filePiece(FALSE, FALSE, 2)>>
                   ELSE <<filePiece(TRUE, FALSE, 0)>>]
    /\ rBlockHeight = 0
    /\ fileInfos = EmptyList
    /\ renterCall = NoRenterCall
    /\ HdbIdle
    /\ ConcIdle

NextRegistry ==
    \/ Rename
    \/ FileList
    \/ SetPieceActive
    \/ SetPieceRepairing

SpecRegistry == InitRegistry /\ [][NextRegistry]_vars

\* The inputs of the decay update: histories at, around and away from
\* historicInteractionDecayLimit, recent counts below and above the cap,
\* records last updated at the lowest and at the highest height
DecayEntries(key) ==
    { HostDBEntry(key, hs, hf, rs, rf, lhu) :
        hs \in {0, 100, 499, 500, 501, 600, 1000},
        hf \in {0, 1, 450},
        rs \in 0..(MaxRecent - 1), rf \in {0, 1, 3, 6},
        lhu \in {0, MaxHeight} }

\* One call of an Increment method, for every input within the bounds.
InitDecay ==
    /\ hostTree \in [KnownKeys -> UNION { DecayEntries(key) : key \in KnownKeys }]
    /\ blockHeight \in Heights
    /\ \A key \in KnownKeys : hostTree[key].PublicKey = key
    /\ online = TRUE
    /\ hdbCall = NoCall
    /\ calls = MaxCalls - 1
    /\ ConcIdle
    /\ RenterIdle

NextDecay ==
    \/ IncrementSuccessfulInteractions
    \/ IncrementFailedInteractions

SpecDecay == InitDecay /\ [][NextDecay]_vars

\* concurrent callers of Rename
NumRenamers == 3

Renamers == 1..NumRenamers

\* The registry of files "a" and "b" with concurrent callers of Rename, one
\* call each, with every pair of names.
InitRename ==
    /\ files = [name \in {"a", "b"} |->
                   file(name, 1, IF name = "a" THEN 1 ELSE 2)]
    /\ backing = [address \in {1, 2} |->
                   IF address = 1
                   THEN <<filePiece(TRUE, FALSE, 1), filePiece(FALSE, FALSE, 2)>>
                   ELSE <<filePiece(TRUE, FALSE, 0)>>]
    /\ rBlockHeight = 0
    /\ fileInfos = EmptyList
    /\ renterCall = NoRenterCall
    /\ HdbIdle
    /\ mu = {}
    /\ pc = [p \in Renamers |-> "wlock"]
    /\ callOp = [p \in Renamers |-> "Rename"]
    /\ callKey = [p \in Renamers |-> "known"]
    /\ host = [p \in Renamers |-> ZeroEntry]
    /\ hostTree0 = hostTree
    /\ rmu = NoHolders
    /\ callNames \in [Renamers -> FileNames \X FileNames]
    /\ callFile = [p \in Renamers |-> file("a", 1, 1)]
    /\ ret = [p \in Renamers |-> NoReturn]

NextRename ==
    \E p \in Renamers :
        \/ WLock(p)
        \/ RenameCheck(p)
        \/ RenameMutate(p)
        \/ WUnlock(p)

SpecRename == InitRename /\ [][NextRename]_vars

\* The calls of the concurrent callers of both subsystems: the two Increment
\* methods on a known and on an unknown key, the queries on a file the
\* caller got from FileList, FileList, and Rename with a free new name, with
\* a taken new name and with a missing source.
LockCalls ==
    { [op |-> op, key |-> key, names |-> <<"a", "a">>] :
        op \in Ops, key \in Keys }
    \cup { [op |-> op, key |-> "known", names |-> <<"a", "a">>] : op \in ReadOps }
    \cup { [op |-> "Rename", key |-> "known", names |-> names] :
             names \in {<<"a", "c">>, <<"a", "b">>, <<"c", "a">>} }

\* hostentry.go:79 and 99, files.go:53 and files.go:121: a call begins by
\* taking its lock
FirstStep(op) ==
    IF op \in Ops THEN "lock"
    ELSE IF op \in ReadOps THEN "rlock"
    ELSE "wlock"

\* The host database and the registry with concurrent callers, one call
\* each, at the block height of the record's last update.
InitLocks ==
    /\ files = [name \in {"a", "b"} |->
                   file(name, 1, IF name = "a" THEN 1 ELSE 2)]
    /\ backing = [address \in {1, 2} |->
                   IF address = 1
                   THEN <<filePiece(TRUE, FALSE, 1), filePiece(FALSE, TRUE, 2)>>
                   ELSE <<filePiece(TRUE, FALSE, 0)>>]
    /\ rBlockHeight = 0
    /\ fileInfos = EmptyList
    /\ renterCall = NoRenterCall
    /\ hostTree = [key \in KnownKeys |-> HostDBEntry(key, 600, 0, 10, 0, 0)]
    /\ blockHeight = 0
    /\ online \in BOOLEAN
    /\ hdbCall = NoCall
    /\ calls = 0
    /\ mu = {}
    /\ \E call \in [Procs -> LockCalls] :
           /\ callOp = [p \in Procs |-> call[p].op]
           /\ callKey = [p \in Procs |-> call[p].key]
           /\ callNames = [p \in Procs |-> call[p].names]
           /\ pc = [p \in Procs |-> FirstStep(call[p].op)]
    /\ host = [p \in Procs |-> ZeroEntry]
    /\ hostTree0 = hostTree
    /\ rmu = NoHolders
    /\ callFile = [p \in Procs |-> files["a"]]
    /\ ret = [p \in Procs |-> NoReturn]

\* the steps of process p
Step(p) ==
    \/ Lock(p)
    \/ SelectHost(p)
    \/ ModifyHost(p)
    \/ Unlock(p)
    \/ RLock(p)
    \/ ReadCall(p)
    \/ RUnlock(p)
    \/ WLock(p)
    \/ RenameCheck(p)
    \/ RenameMutate(p)
    \/ WUnlock(p)

NextLocks == \E p \in Procs : Step(p)

\* Every caller that can take a step takes one eventually.
SpecLocks ==
    /\ InitLocks
    /\ [][NextLocks]_vars
    /\ \A p \in Procs : WF_vars(Step(p))

---------------------------------------------------------------------------
(* The claims.                                                             *)

ActiveCount(pieces) == Cardinality({ i \in 1..Len(pieces) : pieces[i].Active })

\* C1: Available() returns true if and only if the number of active pieces
\* is at least PiecesRequired, for every file (SpecFiles).
C1_AvailableIffQuorum ==
    renterCall.op = "Available" =>
        LET f == files[renterCall.name]
        IN  renterCall.result
              = (ActiveCount(backing[f.Pieces]) >= f.PiecesRequired)

\* C2: a Rename that fails returns the error of the first failing check
\* (not found before already exists) and leaves every file's key, Name and
\* pieces as they were (SpecRegistry).
C2_FailedRenameChangesNothing ==
    [][ renterCall'.op = "Rename" =>
          LET currentName == renterCall'.currentName
              newName == renterCall'.newName
          IN  /\ currentName \notin DOMAIN files =>
                    /\ renterCall'.err = "no file found by that name"
                    /\ files' = files /\ backing' = backing
              /\ (currentName \in DOMAIN files /\ newName \in DOMAIN files) =>
                    /\ renterCall'.err = "file of new name already exists"
                    /\ files' = files /\ backing' = backing ]_vars

\* C2 witness: a file was renamed to its own name and the call failed
C2_SelfRenameRefused ==
    /\ renterCall.op = "Rename"
    /\ renterCall.currentName = renterCall.newName
    /\ renterCall.currentName \in DOMAIN files
    /\ renterCall.err = "file of new name already exists"

IncrementStep == hdbCall'.op \in Ops /\ calls' = calls + 1

\* C3: IncrementFailedInteractions of a known host while offline changes
\* nothing in the host tree and does not call Modify (Spec).
C3_OfflineFailureIgnored ==
    [][ ( /\ IncrementStep
          /\ hdbCall'.op = "IncrementFailedInteractions"
          /\ hdbCall'.key \in DOMAIN hostTree
          /\ ~online )
        => (hostTree' = hostTree /\ ~hdbCall'.modified) ]_vars

\* C3 witness: a failure of a known host was reported while offline, at a
\* height where the decay would have changed the record
C3_OfflineFailureSeen ==
    /\ hdbCall.op = "IncrementFailedInteractions"
    /\ hdbCall.key \in DOMAIN hostTree
    /\ ~online
    /\ ~hdbCall.modified
    /\ hostTree[hdbCall.key].LastHistoricUpdate # blockHeight
    /\ hostTree[hdbCall.key].RecentSuccessfulInteractions > 0

\* C4: both Increment methods, called with a key the host tree does not
\* hold, change no record, create none and do not call Modify (Spec).
C4_UnknownKeyIgnored ==
    [][ (IncrementStep /\ hdbCall'.key \notin DOMAIN hostTree)
        => (hostTree' = hostTree /\ ~hdbCall'.modified) ]_vars

\* C4 witness: a success of an unknown host was reported while online
C4_UnknownKeySeen ==
    /\ hdbCall.op = "IncrementSuccessfulInteractions"
    /\ hdbCall.key \notin DOMAIN hostTree
    /\ online
    /\ ~hdbCall.modified

AllDone == \A p \in Procs : pc[p] = "done"

CallsOf(op, key) ==
    Cardinality({ p \in Procs : callOp[p] = op /\ callKey[p] = key })

\* C5: when n IncrementSuccessfulInteractions and m
\* IncrementFailedInteractions calls on a known key, made concurrently
\* while online at one block height, have all returned, the record is the
\* one the decay update of the first call made, with the recent counters
\* n and m higher (SpecConc).
C5_NoLostIncrement ==
    (AllDone /\ online) =>
        \A key \in DOMAIN hostTree :
            LET n == CallsOf("IncrementSuccessfulInteractions", key)
                m == CallsOf("IncrementFailedInteractions", key)
                first == updateHostHistoricInteractions(hostTree0[key],
                                                        blockHeight)
            IN  hostTree[key] =
                    IF n + m = 0
                    THEN hostTree0[key]
                    ELSE [first EXCEPT
                            !.RecentSuccessfulInteractions = @ + n,
                            !.RecentFailedInteractions = @ + m]

\* C5 witness: a success and a failure of the same known host, reported
\* concurrently at a height above the record's last update, have returned
C5_BothReturned ==
    /\ AllDone
    /\ online
    /\ CallsOf("IncrementSuccessfulInteractions", "known") >= 1
    /\ CallsOf("IncrementFailedInteractions", "known") >= 1
    /\ hostTree0["known"].LastHistoricUpdate < blockHeight
    /\ hostTree["known"].RecentSuccessfulInteractions >= 1
    /\ hostTree["known"].RecentFailedInteractions >= 1

\* What a caller sees through the elements FileList returned
SnapshotView ==
    [name \in DOMAIN fileInfos |->
        [Name |-> Nickname(fileInfos[name]),
         PiecesRequired |-> fileInfos[name].PiecesRequired,
         Pieces |-> backing[fileInfos[name].Pieces]]]

\* C6: after FileList has returned, nothing the renter does to its files
\* is observable through the returned elements (SpecRegistry).
C6_FileListIsSnapshot ==
    [][ renterCall'.op # "FileList" => SnapshotView' = SnapshotView ]_vars

RatMax(a, b) == IF RatGt(a, b) THEN a ELSE b

\* C7: in a decay update after at least one block, the clamped recent
\* counts add up to at most recentInteractionWeightLimit times the larger
\* of historicInteractionDecayLimit and the historic total after the
\* single-block decay; their ratio is the ratio of the recent counters;
\* and when exactly one block passed, the stored historic total exceeds
\* the decayed historic total by no more than that cap (SpecDecay).
C7_RecencyClamp ==
    [][ \A key \in DOMAIN hostTree :
          ( /\ IncrementStep
            /\ hdbCall'.key = key
            /\ hdbCall'.modified
            /\ hostTree[key].LastHistoricUpdate # blockHeight )
          => LET old == hostTree[key]
                 h == SingleBlockDecay(old)
                 r == ClampRecent(old, h)
                 total == RatAdd(h.hsi, h.hfi)
                 cap == RatMul(recentInteractionWeightLimit,
                               RatMax(RatInt(historicInteractionDecayLimit),
                                      total))
                 stored == hostTree'[key].HistoricSuccessfulInteractions
                           + hostTree'[key].HistoricFailedInteractions
             IN  /\ RatLeq(RatAdd(r.rsi, r.rfi), cap)
                 /\ RatEq(RatMul(r.rsi, RatInt(old.RecentFailedInteractions)),
                          RatMul(r.rfi, RatInt(old.RecentSuccessfulInteractions)))
                 /\ BlockHeightSub(blockHeight, old.LastHistoricUpdate) = 1
                      => RatLeq(RatInt(stored), RatAdd(total, cap)) ]_vars

\* C7 witness: the record (100, 0) with recent counts (10, 3) was updated
\* one or more blocks later: the 13 recent interactions were scaled to 5,
\* 10 * 5 / 13 successful and 3 * 5 / 13 failed
C7_ClampedMerge ==
    /\ hdbCall.modified
    /\ hostTree["known"].HistoricSuccessfulInteractions = 103
    /\ hostTree["known"].HistoricFailedInteractions = 1
    /\ hostTree["known"].LastHistoricUpdate = blockHeight

\* C8: LastHistoricUpdate of a record never becomes smaller (Spec).
C8_LastHistoricUpdateMonotone ==
    [][ \A key \in DOMAIN hostTree :
          hostTree'[key].LastHistoricUpdate
            >= hostTree[key].LastHistoricUpdate ]_vars

\* C9: an increment that takes effect at the height of the record's last
\* update changes the one recent counter it increments, by one, and
\* nothing else of the record: the decay update is the identity there
\* (Spec).
C9_DecayIdentity ==
    [][ \A key \in DOMAIN hostTree :
          ( /\ IncrementStep
            /\ hdbCall'.key = key
            /\ hdbCall'.modified
            /\ hostTree[key].LastHistoricUpdate = blockHeight )
          => /\ updateHostHistoricInteractions(hostTree[key], blockHeight)
                  = hostTree[key]
             /\ hostTree'[key] =
                  IF hdbCall'.op = "IncrementSuccessfulInteractions"
                  THEN [hostTree[key] EXCEPT
                          !.RecentSuccessfulInteractions = @ + 1]
                  ELSE [hostTree[key] EXCEPT
                          !.RecentFailedInteractions = @ + 1] ]_vars

\* C9 witness: two increments took effect and the recent counters hold
\* both: one of 10 successes more, one of 3 failures more, at an unchanged
\* history
C9_SecondIncrementKept ==
    /\ calls = 2
    /\ hdbCall.modified
    /\ hostTree["known"].RecentSuccessfulInteractions = 11
    /\ hostTree["known"].RecentFailedInteractions = 4
    /\ hostTree["known"].HistoricSuccessfulInteractions = 600

\* C10: TimeRemaining is 0 for a file without pieces, 0 when the window of
\* the first piece's contract starts below the block height, and the
\* distance to that window start otherwise; it never wraps around
\* (SpecFiles).
C10_TimeRemaining ==
    renterCall.op = "TimeRemaining" =>
        LET pieces == backing[files[renterCall.name].Pieces]
            result == renterCall.result
        IN  /\ result \in 0..MaxWindow
            /\ Len(pieces) = 0 => result = 0
            /\ Len(pieces) > 0 =>
                 LET W == pieces[1].Contract.WindowStart
                     H == rBlockHeight
                 IN  /\ W < H => result = 0
                     /\ W >= H => result = W - H

\* C10 witness: the first piece's window has passed, the second piece's
\* has not, and TimeRemaining returned 0
C10_FirstPieceDecides ==
    /\ renterCall.op = "TimeRemaining"
    /\ Len(backing[files[renterCall.name].Pieces]) = 2
    /\ backing[files[renterCall.name].Pieces][1].Contract.WindowStart < rBlockHeight
    /\ backing[files[renterCall.name].Pieces][2].Contract.WindowStart > rBlockHeight
    /\ renterCall.result = 0

\* C13: Repairing() is true if and only if some piece of the file has
\* Repairing set, whatever the Active flags are; it is false for a file
\* without pieces (SpecFiles).
C13_RepairingIffSomePiece ==
    renterCall.op = "Repairing" =>
        LET pieces == backing[files[renterCall.name].Pieces]
        IN  renterCall.result
              = (Cardinality({ i \in 1..Len(pieces) : pieces[i].Repairing }) > 0)

\* C13 witness: only the last piece is being repaired, and it is the
\* inactive one; Repairing returned true
C13_LastPieceRepairing ==
    /\ renterCall.op = "Repairing"
    /\ renterCall.result = TRUE
    /\ Len(backing[files[renterCall.name].Pieces]) = 2
    /\ ~backing[files[renterCall.name].Pieces][1].Repairing
    /\ backing[files[renterCall.name].Pieces][1].Active
    /\ backing[files[renterCall.name].Pieces][2].Repairing
    /\ ~backing[files[renterCall.name].Pieces][2].Active

\* Every file is registered under its own Name.
KeysAreNames == \A name \in DOMAIN files : files[name].Name = name

\* What a successful Rename does to the registry.
RenameEffect ==
    (renterCall'.op = "Rename" /\ renterCall'.err = "nil") =>
        LET currentName == renterCall'.currentName
            newName == renterCall'.newName
        IN  /\ currentName \in DOMAIN files
            /\ currentName \notin DOMAIN files'
            /\ DOMAIN files' = (DOMAIN files \ {currentName}) \cup {newName}
            /\ files'[newName].Name = newName
            /\ files'[newName].Pieces = files[currentName].Pieces
            /\ files'[newName].PiecesRequired = files[currentName].PiecesRequired
            /\ \A other \in DOMAIN files \ {currentName} :
                   other \in DOMAIN files' /\ files'[other] = files[other]
            /\ backing' = backing

\* C17: every registered file is stored under its own Name, before and
\* after every operation; a successful Rename removes the key currentName,
\* stores the same file (same pieces, same erasure parameters) under newName
\* with Name = newName, and leaves every other file untouched (SpecRegistry).
C17_RegistryKeyIsName == []KeysAreNames /\ [][RenameEffect]_vars

\* C17 witness: the two-piece file "a" has been renamed to "c" next to "b"
C17_RenamedToFreshName ==
    /\ renterCall.op = "Rename"
    /\ renterCall.err = "nil"
    /\ renterCall.currentName = "a"
    /\ renterCall.newName = "c"
    /\ DOMAIN files = {"b", "c"}
    /\ files["c"].Name = "c"
    /\ Len(backing[files["c"].Pieces]) = 2

\* The counters of every record are natural numbers.
CountersNatural ==
    \A key \in DOMAIN hostTree :
        /\ hostTree[key].HistoricSuccessfulInteractions \in Nat
        /\ hostTree[key].HistoricFailedInteractions \in Nat
        /\ hostTree[key].RecentSuccessfulInteractions \in Nat
        /\ hostTree[key].RecentFailedInteractions \in Nat

\* No step makes a counter larger than what was counted: a historic counter
\* gains at most the recent one, a recent counter gains at most one.
CountersNeverWrap ==
    \A key \in DOMAIN hostTree :
        /\ hostTree'[key].HistoricSuccessfulInteractions
             <= hostTree[key].HistoricSuccessfulInteractions
                  + hostTree[key].RecentSuccessfulInteractions
        /\ hostTree'[key].HistoricFailedInteractions
             <= hostTree[key].HistoricFailedInteractions
                  + hostTree[key].RecentFailedInteractions
        /\ hostTree'[key].RecentSuccessfulInteractions
             <= hostTree[key].RecentSuccessfulInteractions + 1
        /\ hostTree'[key].RecentFailedInteractions
             <= hostTree[key].RecentFailedInteractions + 1

\* C12: whatever Increment calls and decay updates happen at whatever block
\* heights, a height below LastHistoricUpdate included, the four counters
\* of a record are never negative and never wrap around to a large value
\* (Spec).
C12_CountersNonNegative == []CountersNatural /\ [][CountersNeverWrap]_vars

\* C12 witness: the first increment came at a height below the record's
\* LastHistoricUpdate; the height difference wrapped, and the rich history
\* decayed to zero
C12_WrappedDifferenceDecayed ==
    /\ calls = 1
    /\ hdbCall.modified
    /\ hostTree0["known"].LastHistoricUpdate > blockHeight
    /\ hostTree0["known"].HistoricSuccessfulInteractions = 600
    /\ hostTree["known"].HistoricSuccessfulInteractions = 0
    /\ hostTree["known"].HistoricFailedInteractions = 0
    /\ hostTree["known"].LastHistoricUpdate = blockHeight

\* C16: an increment that takes effect at a block height other than the
\* record's LastHistoricUpdate leaves the record with LastHistoricUpdate at
\* the current height, the incremented recent counter at exactly 1 and the
\* other recent counter at 0: the decay update runs before the increment
\* (Spec).
C16_UpdateBeforeIncrement ==
    [][ \A key \in DOMAIN hostTree :
          ( /\ IncrementStep
            /\ hdbCall'.key = key
            /\ hdbCall'.modified
            /\ hostTree[key].LastHistoricUpdate # blockHeight )
          => /\ hostTree'[key].LastHistoricUpdate = blockHeight
             /\ IF hdbCall'.op = "IncrementSuccessfulInteractions"
                THEN /\ hostTree'[key].RecentSuccessfulInteractions = 1
                     /\ hostTree'[key].RecentFailedInteractions = 0
                ELSE /\ hostTree'[key].RecentFailedInteractions = 1
                     /\ hostTree'[key].RecentSuccessfulInteractions = 0 ]_vars

\* C16 witness: a success was counted for a record with 10 recent successes
\* and 3 recent failures that was last updated at a lower height
C16_SuccessAfterUpdate ==
    /\ calls = 1
    /\ hdbCall.modified
    /\ hdbCall.op = "IncrementSuccessfulInteractions"
    /\ hostTree0["known"].LastHistoricUpdate < blockHeight
    /\ hostTree0["known"].RecentSuccessfulInteractions = 10
    /\ hostTree0["known"].RecentFailedInteractions = 3
    /\ hostTree["known"].RecentSuccessfulInteractions = 1
    /\ hostTree["known"].RecentFailedInteractions = 0
    /\ hostTree["known"].LastHistoricUpdate = blockHeight

\* The record the single call of SpecDecay found, and the number of blocks
\* between its LastHistoricUpdate and the block height of the call.
DecayedRecord == hostTree0[hdbCall.key]

DecayDelta == BlockHeightSub(blockHeight, DecayedRecord.LastHistoricUpdate)

RatMin(a, b) == IF RatGt(a, b) THEN b ELSE a

\* The two-phase decay as the four steps describe it, for Delta >= 1:
\* the pair of historic counters that is stored.
TwoPhaseReference(hs, hf, rs, rf, Delta) ==
    LET limit  == RatInt(historicInteractionDecayLimit)
        \* (1) one block of decay iff the total exceeds the limit
        first  == IF hs + hf > historicInteractionDecayLimit
                  THEN historicInteractionDecay ELSE RatInt(1)
        total  == RatMul(RatInt(hs + hf), first)
        \* (2) the recents, capped at WeightLimit of max(total, limit)
        cap    == RatMul(recentInteractionWeightLimit, RatMax(total, limit))
        scale  == IF rs + rf > 0 /\ RatGt(RatInt(rs + rf), cap)
                  THEN RatDiv(cap, RatInt(rs + rf)) ELSE RatInt(1)
        ms     == RatAdd(RatMul(RatInt(hs), first), RatMul(RatInt(rs), scale))
        mf     == RatAdd(RatMul(RatInt(hf), first), RatMul(RatInt(rf), scale))
        \* (3) Delta - 1 further blocks iff Delta > 1 and the merged total
        \* exceeds the limit; a power too small for a float64 is 0
        rest   == IF Delta > 1 /\ RatGt(RatAdd(ms, mf), limit)
                  THEN IF Delta - 1 >= PowUnderflowExponent
                       THEN RatInt(0)
                       ELSE RatPowInt(historicInteractionDecay, Delta - 1)
                  ELSE RatInt(1)
        \* (4) truncation
    IN  <<RatTrunc(RatMul(ms, rest)), RatTrunc(RatMul(mf, rest))>>

\* Results of the float64 computation for decay 0.995, limit 500, weight
\* limit 0.01: <<hs, hf, rs, rf, Delta>> and the stored historic pair.
TwoPhaseExamples ==
    { <<<<100, 0, 10, 0, 1>>, <<105, 0>>>>,
      <<<<600, 0, 10, 0, 1>>, <<602, 0>>>>,
      <<<<501, 0, 5, 1, 1>>, <<502, 0>>>>,
      <<<<499, 1, 11, 6, 2>>, <<499, 2>>>>,
      <<<<1000, 450, 0, 0, 2>>, <<990, 445>>>>,
      <<<<100, 450, 8, 3, 2>>, <<102, 446>>>>,
      <<<<600, 450, 10, 3, 3>>, <<599, 445>>>>,
      <<<<500, 0, 10, 0, 3>>, <<499, 0>>>>,
      <<<<1000, 1, 11, 6, 3>>, <<991, 4>>>>,
      <<<<600, 0, 0, 0, 3>>, <<591, 0>>>> }

\* C14: for a height difference Delta >= 1 the update computes, in this
\* order, one block of decay iff the historic total exceeds the decay
\* limit, the addition of the clamped recent counters, Delta - 1 further
\* blocks of decay iff Delta > 1 and the merged total exceeds the limit,
\* and the truncation; the stored historic counters equal that reference,
\* and the recent counters hold the counted interaction only.  With decay
\* 0.995, limit 500 and weight limit 0.01, historic (100, 0) and recent
\* (10, 0) at Delta = 1 give historic (105, 0) (SpecDecay).
C14_TwoPhaseDecay ==
    (hdbCall.op \in Ops /\ hdbCall.modified /\ DecayDelta >= 1) =>
        LET pre    == DecayedRecord
            stored == hostTree[hdbCall.key]
            inputs == <<pre.HistoricSuccessfulInteractions,
                        pre.HistoricFailedInteractions,
                        pre.RecentSuccessfulInteractions,
                        pre.RecentFailedInteractions,
                        DecayDelta>>
            result == <<stored.HistoricSuccessfulInteractions,
                        stored.HistoricFailedInteractions>>
        IN  /\ result = TwoPhaseReference(inputs[1], inputs[2], inputs[3],
                                          inputs[4], inputs[5])
            /\ \A example \in TwoPhaseExamples :
                   example[1] = inputs => result = example[2]
            /\ stored.RecentSuccessfulInteractions + stored.RecentFailedInteractions = 1
            /\ stored.LastHistoricUpdate = blockHeight

\* C14 witness: historic (100, 0), recent (10, 0), one block later: the
\* stored history is (105, 0)
C14_ScenarioA ==
    /\ hdbCall.op \in Ops
    /\ hdbCall.modified
    /\ DecayDelta = 1
    /\ DecayedRecord.HistoricSuccessfulInteractions = 100
    /\ DecayedRecord.HistoricFailedInteractions = 0
    /\ DecayedRecord.RecentSuccessfulInteractions = 10
    /\ DecayedRecord.RecentFailedInteractions = 0
    /\ hostTree[hdbCall.key].HistoricSuccessfulInteractions = 105
    /\ hostTree[hdbCall.key].HistoricFailedInteractions = 0

\* The history that was found was thin: at or below the decay limit.
ThinHistory ==
    DecayedRecord.HistoricSuccessfulInteractions
      + DecayedRecord.HistoricFailedInteractions
        <= historicInteractionDecayLimit

HistoryNotSmaller ==
    /\ hostTree[hdbCall.key].HistoricSuccessfulInteractions
         >= DecayedRecord.HistoricSuccessfulInteractions
    /\ hostTree[hdbCall.key].HistoricFailedInteractions
         >= DecayedRecord.HistoricFailedInteractions

\* The total of a thin history after its clamped recent counters were added
\* does not exceed the decay limit.
ThinAfterMerge ==
    LET recent == RatInt(DecayedRecord.RecentSuccessfulInteractions
                           + DecayedRecord.RecentFailedInteractions)
        cap    == RatMul(recentInteractionWeightLimit,
                         RatInt(historicInteractionDecayLimit))
        total  == RatInt(DecayedRecord.HistoricSuccessfulInteractions
                           + DecayedRecord.HistoricFailedInteractions)
    IN  RatLeq(RatAdd(total, RatMin(recent, cap)),
               RatInt(historicInteractionDecayLimit))

\* C15 as stated: when the historic total is at or below the decay limit
\* before the update, neither historic counter is smaller after it, for
\* every height difference >= 1 and all recent counters.  Checked for the
\* current height above LastHistoricUpdate only (SpecDecay); it is violated.
C15_ThinHistoryNeverShrinks ==
    ( /\ hdbCall.op \in Ops
      /\ hdbCall.modified
      /\ blockHeight > DecayedRecord.LastHistoricUpdate
      /\ ThinHistory )
    => HistoryNotSmaller

\* C15 amended: when the historic total is at or below the decay limit
\* before the update, neither historic counter is smaller after it,
\* provided the height difference is 1 or the total after the clamped
\* recent counters were added is still at or below the decay limit; this
\* for every height difference >= 1, a wrapped one included (SpecDecay).
C15_ThinHistoryKeptUntilMergedRich ==
    ( /\ hdbCall.op \in Ops
      /\ hdbCall.modified
      /\ DecayDelta >= 1
      /\ ThinHistory
      /\ (DecayDelta = 1 \/ ThinAfterMerge) )
    => HistoryNotSmaller

\* C15 witness: a history of (100, 0) with 10 recent successes, three
\* blocks later: the total is 105 after the merge, and nothing is decayed
C15_ThinHistoryGrown ==
    /\ hdbCall.op \in Ops
    /\ hdbCall.modified
    /\ DecayDelta = 3
    /\ DecayedRecord.HistoricSuccessfulInteractions = 100
    /\ DecayedRecord.HistoricFailedInteractions = 0
    /\ DecayedRecord.RecentSuccessfulInteractions = 10
    /\ DecayedRecord.RecentFailedInteractions = 0
    /\ hostTree[hdbCall.key].HistoricSuccessfulInteractions = 105
    /\ hostTree[hdbCall.key].HistoricFailedInteractions = 0

RenameSucceeded(p) == callOp[p] = "Rename" /\ ret[p].err = "nil"

RenameFailed(p) == callOp[p] = "Rename" /\ ret[p].err \notin {"nil", "none"}

\* The registry holds as many files as it held at the beginning.
FileCountKept == Cardinality(DOMAIN files) = 2

\* r.save() was called once by every successful Rename, by no other.
SavedOncePerSuccess ==
    \A p \in DOMAIN pc :
        /\ RenameSucceeded(p) => ret[p].saves = 1
        /\ ~RenameSucceeded(p) => ret[p].saves = 0

\* C11 as stated: of the concurrent Rename calls, no two with the same new
\* name both succeed, no two with the same source both succeed, and the
\* number of files does not change (SpecRename); it is violated.
C11_NoTwoSuccessesOnOneName ==
    /\ FileCountKept
    /\ \A p \in DOMAIN pc : \A q \in DOMAIN pc \ {p} :
           (RenameSucceeded(p) /\ RenameSucceeded(q))
           => /\ callNames[p][2] # callNames[q][2]
              /\ callNames[p][1] # callNames[q][1]

\* Two successful renames share a new name only when a third successful
\* rename moved a file away from that name, and share a source only when a
\* third successful rename moved a file to that name.
SharedNameFreedBetween ==
    \A p \in DOMAIN pc : \A q \in DOMAIN pc \ {p} :
        (RenameSucceeded(p) /\ RenameSucceeded(q))
        => /\ callNames[p][2] = callNames[q][2]
                => \E r \in DOMAIN pc \ {p, q} :
                       RenameSucceeded(r) /\ callNames[r][1] = callNames[p][2]
           /\ callNames[p][1] = callNames[q][1]
                => \E r \in DOMAIN pc \ {p, q} :
                       RenameSucceeded(r) /\ callNames[r][2] = callNames[p][1]

\* The registry changes in steps that are whole renames: the source is
\* there and the new name is free when the step begins, the file moves, and
\* the caller is the one holder of the lock.
RenameIsOneStep ==
    files' # files =>
        \E p \in DOMAIN pc :
            /\ rmu.writer = {p} /\ rmu.readers = {}
            /\ ret[p].saves = 0 /\ ret'[p] = [err |-> "nil", saves |-> 1]
            /\ callNames[p][1] \in DOMAIN files
            /\ callNames[p][2] \notin DOMAIN files
            /\ DOMAIN files' = (DOMAIN files \ {callNames[p][1]})
                                  \cup {callNames[p][2]}
            /\ files'[callNames[p][2]]
                 = [files[callNames[p][1]] EXCEPT !.Name = callNames[p][2]]

\* C11 amended: the checks and the mutation of a Rename are one atomic step
\* under the exclusive lock, r.save() is called once by a successful Rename
\* and never by a failed one, and the number of files never changes; of
\* concurrent Rename calls, two with the same new name (the same source)
\* both succeed only when another successful Rename moved a file away from
\* that new name (to that source) between them (SpecRename).
C11_RenameAtomic ==
    /\ [](FileCountKept /\ SavedOncePerSuccess /\ SharedNameFreedBetween)
    /\ [][RenameIsOneStep]_vars

\* C11 witness: all calls returned; "a" and "b" were both to be renamed
\* to "c": one call succeeded, the other found the name taken
C11_RacedForOneName ==
    /\ \A p \in DOMAIN pc : pc[p] = "done"
    /\ \E p \in DOMAIN pc : \E q \in DOMAIN pc \ {p} :
           /\ callNames[p] = <<"a", "c">>
           /\ callNames[q] = <<"b", "c">>
           /\ RenameSucceeded(p)
           /\ ret[q] = [err |-> "file of new name already exists", saves |-> 0]
           /\ DOMAIN files = {"b", "c"}

HoldsHdbLock(p) == p \in mu

HoldsFileLock(p) == p \in rmu.writer \cup rmu.readers

\* No caller holds, or waits for, one lock while it holds the other.
LocksNotNested ==
    \A p \in Procs :
        /\ ~(HoldsHdbLock(p) /\ HoldsFileLock(p))
        /\ pc[p] = "lock" => ~HoldsFileLock(p)
        /\ pc[p] \in {"rlock", "wlock"} => ~HoldsHdbLock(p)

\* A caller that has returned holds no lock.
LocksReleased ==
    \A p \in Procs :
        pc[p] = "done" => (~HoldsHdbLock(p) /\ ~HoldsFileLock(p))

\* C18: no call of Available, Repairing, TimeRemaining, Nickname, FileList,
\* Rename, IncrementSuccessfulInteractions or IncrementFailedInteractions
\* takes one of the two locks while it holds the other; every call has
\* released its lock when it has returned, on the early returns too; and
\* with every caller scheduled fairly, all calls return (SpecLocks).
C18_LocksReleasedAndCallsReturn ==
    /\ [](LocksNotNested /\ LocksReleased)
    /\ <>[]AllDone

\* C18 witness: all calls returned and the locks are free, one call was a
\* Rename that returned an error and one an IncrementFailedInteractions of
\* a known host while offline
C18_EarlyReturnsReleased ==
    /\ AllDone
    /\ mu = {} /\ rmu = NoHolders
    /\ ~online
    /\ hostTree = hostTree0
    /\ \E p \in Procs : RenameFailed(p)
    /\ \E p \in Procs :
           callOp[p] = "IncrementFailedInteractions" /\ callKey[p] = "known"

=============================================================================
